---- MODULE Spec2Model ----
(***************************************************************************)
(* Verification model of the ACE Uganda HPC wiki repository.               *)
(*                                                                         *)
(*   - the homepage feature grid                                           *)
(*       src/src/components/HomepageFeatures/index.js                      *)
(*   - the site configuration and the build that consumes it               *)
(*       src/docusaurus.config.js                                          *)
(*                                                                         *)
(*   - the programs of the tutorials: summarize_run.sh (Linux basics),     *)
(*     estimate_pi_mpi.py, mpi_hello.py and estimate_pi.py (containers)    *)
(*   - the account onboarding steps of docs/getting-started                *)
(*                                                                         *)
(* SpecRender drives renders of HomepageFeatures; SpecBuild drives builds  *)
(* that evaluate the configuration module, check links, and serve;         *)
(* SpecSummarize, SpecPi, SpecHello and SpecEstimate drive runs of the     *)
(* tutorials' programs; SpecAccounts drives one applicant's onboarding.    *)
(***************************************************************************)
EXTENDS Integers, Sequences, FiniteSets, TLC

VARIABLES
    featureList,  \* the array object bound to the const FeatureList
    pc,           \* position of the renderer: "idle", "map", "error"
    len,          \* array length sampled by Array.prototype.map on entry
    k,            \* index of the next element map() visits (0-based)
    acc,          \* the array map() is building
    renders,      \* completed renders, oldest first: [input, output]
    calls,        \* indexes Feature was invoked for in the latest render, in order
    clock,        \* calendar year of the build machine's clock
    phase,        \* position of the build: "start", "loaded", "built", "failed", "serving"
    config,       \* the evaluated configuration record of the current build
    evalYear,     \* clock value when the config module was evaluated
    evaluated,    \* configuration records of all builds so far, oldest first
    reports,      \* broken-link findings of the current build, oldest first
    \* summarize_run.sh and the directories it works on
    logDir,       \* LOG_DIR: file name -> lines of the file
    failedDir,    \* FAILED_DIR: [exists, files: file name -> lines]
    report,       \* REPORT: [exists, lines]
    passed,       \* shell variable passed
    failed,       \* shell variable failed
    words,        \* the word list the for loop was expanded to
    todo,         \* words of the for loop not yet iterated over
    spc,          \* position of the script: "idle", "setup", "for", "loop", "totals", "done"
    runNo,        \* number of the current run (stands for what date prints)
    startDir,     \* LOG_DIR as it was when the current run started
    shown,        \* what cat "$REPORT" printed at the end of the latest run
    \* estimate_pi_mpi.py and mpi_hello.py under mpirun
    size,         \* comm.Get_size()
    rpc,          \* position of each rank
    stdout,       \* lines printed, in the order they were issued
    samples,      \* args.samples
    samplesPerRank, \* samples_per_rank of each rank
    atBarrier,    \* ranks that have entered comm.Barrier()
    localInside,  \* local_inside of each rank
    contrib,      \* ranks whose value has entered the reduction
    totalInside,  \* total_inside at the root
    piEstimate,   \* pi_estimate at the root: <<numerator, denominator>>
    \* estimate_pi.py (containerize-code tutorial)
    epc,          \* position of the process: "off", "parsed", "seeded", "sampled", "exit"
    rng,          \* state of numpy's global generator in the process
    args,         \* parsed arguments: [samples, seed], seed "None" when not given
    insideCircle, \* inside_circle of estimate_pi
    results,      \* [samples, estimate, error, elapsed_seconds] of the running process
    printed,      \* what the finished runs printed, oldest first, with their args
    \* account onboarding (docs/getting-started, docs/support/faq)
    stage,        \* step of the onboarding the user is at
    experienced,  \* what the form review found: "unknown", TRUE, FALSE
    score,        \* score of the latest quiz attempt, -1 before the first
    attempts,     \* quiz attempts so far (counted up to MaxAttempts)
    events        \* milestones reached, in the order they happened

renderVars == <<featureList, pc, len, k, acc, renders, calls>>
buildVars  == <<clock, phase, config, evalYear, evaluated, reports>>
scriptVars == <<logDir, failedDir, report, passed, failed, words, todo, spc,
                runNo, startDir, shown>>
mpiVars    == <<size, rpc, stdout, samples, samplesPerRank, atBarrier,
                localInside, contrib, totalInside, piEstimate>>
seedVars   == <<epc, rng, args, insideCircle, results, printed>>
accountVars == <<stage, experienced, score, attempts, events>>
tutorialVars == <<scriptVars, mpiVars, seedVars>>
siteVars   == <<renderVars, buildVars>>
vars       == <<featureList, pc, len, k, acc, renders, calls,
                clock, phase, config, evalYear, evaluated, reports,
                logDir, failedDir, report, passed, failed, words, todo, spc,
                runNo, startDir, shown,
                size, rpc, stdout, samples, samplesPerRank, atBarrier,
                localInside, contrib, totalInside, piEstimate,
                epc, rng, args, insideCircle, results, printed,
                stage, experienced, score, attempts, events>>

\* estimate_pi.py is not running and has not run.
SeedIdle ==
    /\ epc = "off"
    /\ rng = 0
    /\ args = <<>>
    /\ insideCircle = 0
    /\ results = <<>>
    /\ printed = <<>>

\* Nobody has asked for an account.
AccountsIdle ==
    /\ stage = "none"
    /\ experienced = "unknown"
    /\ score = -1
    /\ attempts = 0
    /\ events = <<>>

(***************************************************************************)
(* Bounds of the model.                                                    *)
(***************************************************************************)
MaxLen == 4       \* longest feature list explored
MaxRenders == 2   \* renders of the homepage per behaviour

(***************************************************************************)
(* HomepageFeatures/index.js                                               *)
(***************************************************************************)

\* A feature descriptor of the source with its fields given under other
\* names (the spec calls the graphic "image"): used to break FeatureList.
FeatureListImageKey ==
    << [title |-> "Get Started Quickly",
        Svg |-> "@site/static/img/speedometer-svgrepo-com.svg",
        description |-> [text |-> "Learn how to access the ACE HPC cluster, connect via SSH, and submit your first job in minutes. Check out our ",
                         href |-> "/ace-ug-hpc-wiki/docs/getting-started/accounts",
                         link |-> "step-by-step guide"]],
       [title |-> "Unleash Computing Power",
        image |-> "@site/static/img/settings-gear-svgrepo-com.svg",
        description |-> [text |-> "Leverage our high-performance nodes, GPUs, and vast storage for your bioinformatics workflows. Explore the ",
                         href |-> "/ace-ug-hpc-wiki/docs/hardware/overview",
                         link |-> "cluster specs"]],
       [title |-> "Analyze with Ease",
        Svg |-> "@site/static/img/analytics-computer-svgrepo-com.svg",
        description |-> [text |-> "Use pre-installed tools like BLAST and R, or install your own software to process genomic data efficiently. See the ",
                         href |-> "/ace-ug-hpc-wiki/docs/software/installed",
                         link |-> "software list"]] >>

\* const FeatureList = [ {title, Svg, description}, ... ] as written in the source.
FeatureList ==
    << [title |-> "Get Started Quickly",
        Svg |-> "@site/static/img/speedometer-svgrepo-com.svg",
        description |-> [text |-> "Learn how to access the ACE HPC cluster, connect via SSH, and submit your first job in minutes. Check out our ",
                         href |-> "/ace-ug-hpc-wiki/docs/getting-started/accounts",
                         link |-> "step-by-step guide"]],
       [title |-> "Unleash Computing Power",
        Svg |-> "@site/static/img/settings-gear-svgrepo-com.svg",
        description |-> [text |-> "Leverage our high-performance nodes, GPUs, and vast storage for your bioinformatics workflows. Explore the ",
                         href |-> "/ace-ug-hpc-wiki/docs/hardware/overview",
                         link |-> "cluster specs"]],
       [title |-> "Analyze with Ease",
        Svg |-> "@site/static/img/analytics-computer-svgrepo-com.svg",
        description |-> [text |-> "Use pre-installed tools like BLAST and R, or install your own software to process genomic data efficiently. See the ",
                         href |-> "/ace-ug-hpc-wiki/docs/software/installed",
                         link |-> "software list"]] >>

\* The descriptors a feature list is written from.
Descriptors == { FeatureList[i] : i \in 1..Len(FeatureList) }

\* The feature lists explored: every list of at most MaxLen descriptors;
\* FeatureList itself is one of them.
FeatureLists ==
    UNION { [1..n -> Descriptors] : n \in 0..MaxLen } \cup { FeatureList }

\* Destructuring {Svg, title, description}: a field the object lacks is undefined.
HasField(props, f) == f \in DOMAIN props

\* A Feature that stamps its block with the number of renders done so far.
FeatureCounting(props) ==
    [className |-> "col col--4",
     svg |-> IF HasField(props, "Svg")
               THEN <<[type |-> props.Svg, className |-> "featureSvg", role |-> "img"]>>
               ELSE <<>>,
     heading |-> [as |-> "h3",
                  children |-> (IF HasField(props, "title") THEN <<props.title>> ELSE <<>>)
                                 \o << ToString(Len(renders)) >>],
     p |-> IF HasField(props, "description") THEN <<props.description>> ELSE <<>>]

\* A Feature laid out on half of the row.
FeatureHalfWidth(props) ==
    [className |-> "col col--6",
     svg |-> IF HasField(props, "Svg")
               THEN <<[type |-> props.Svg, className |-> "featureSvg", role |-> "img"]>>
               ELSE <<>>,
     heading |-> [as |-> "h3",
                  children |-> IF HasField(props, "title") THEN <<props.title>> ELSE <<>>],
     p |-> IF HasField(props, "description") THEN <<props.description>> ELSE <<>>]

\* function Feature({Svg, title, description}): the block of one descriptor.
\* An undefined child renders nothing; svg is empty when Svg is undefined
\* (React cannot render an undefined element type: see MapStep).
Feature(props) ==
    [className |-> "col col--4",
     svg |-> IF HasField(props, "Svg")
               THEN <<[type |-> props.Svg, className |-> "featureSvg", role |-> "img"]>>
               ELSE <<>>,
     heading |-> [as |-> "h3",
                  children |-> IF HasField(props, "title") THEN <<props.title>> ELSE <<>>],
     p |-> IF HasField(props, "description") THEN <<props.description>> ELSE <<>>]

\* <Feature key={idx} {...props} />
Element(props, idx) == [key |-> idx, block |-> Feature(props)]

\* The markup HomepageFeatures returns around the mapped blocks.
Section(blocks) ==
    [tag |-> "section", className |-> "features",
     container |-> [tag |-> "div", className |-> "container",
                    row |-> [tag |-> "div", className |-> "row", children |-> blocks]]]

\* HomepageFeatures() entered on a list it first reverses in place
\* (FeatureList.reverse().map(...)).
HomepageFeaturesReversing ==
    /\ pc = "idle"
    /\ Len(renders) < MaxRenders
    /\ featureList' = [i \in 1..Len(featureList) |-> featureList[Len(featureList) + 1 - i]]
    /\ pc' = "map"
    /\ len' = Len(featureList)
    /\ k' = 0
    /\ acc' = <<>>
    /\ calls' = <<>>
    /\ UNCHANGED <<renders>>
    /\ UNCHANGED buildVars
    /\ UNCHANGED <<tutorialVars, accountVars>>

\* HomepageFeatures() is entered: FeatureList.map(...) samples the length
\* and starts with an empty result array.
HomepageFeaturesEntry ==
    /\ pc = "idle"
    /\ Len(renders) < MaxRenders
    /\ pc' = "map"
    /\ len' = Len(featureList)
    /\ k' = 0
    /\ acc' = <<>>
    /\ calls' = <<>>
    /\ UNCHANGED <<featureList, renders>>

\* HomepageFeatures() called on its own (no build around it).
HomepageFeatures ==
    /\ HomepageFeaturesEntry
    /\ UNCHANGED buildVars
    /\ UNCHANGED <<tutorialVars, accountVars>>

\* A map() that visits the list from its end.
MapStepBackwards ==
    /\ pc = "map"
    /\ k < len
    /\ acc' = Append(acc, Element(featureList[len - k], k))
    /\ k' = k + 1
    /\ pc' = "map"
    /\ calls' = Append(calls, k)
    /\ UNCHANGED <<featureList, len, renders>>
    /\ UNCHANGED buildVars
    /\ UNCHANGED <<tutorialVars, accountVars>>

\* A map() that leaves out the last element (i < length - 1).
MapStepShort ==
    /\ pc = "map"
    /\ k < len
    /\ acc' = IF k + 1 < len
                THEN Append(acc, Element(featureList[k + 1], k))
                ELSE acc
    /\ k' = k + 1
    /\ pc' = "map"
    /\ calls' = Append(calls, k)
    /\ UNCHANGED <<featureList, len, renders>>
    /\ UNCHANGED buildVars
    /\ UNCHANGED <<tutorialVars, accountVars>>

\* A map() whose callback is run a second time for the same element.
MapStepRetry ==
    /\ pc = "map"
    /\ k < len
    /\ acc' = Append(acc, Element(featureList[k + 1], k))
    /\ k' = k + 1
    /\ pc' = "map"
    /\ calls' = Append(Append(calls, k), k)
    /\ UNCHANGED <<featureList, len, renders>>
    /\ UNCHANGED buildVars
    /\ UNCHANGED <<tutorialVars, accountVars>>

\* One iteration of FeatureList.map((props, idx) => <Feature key={idx} {...props} />):
\* the callback is applied to element k and its result stored at index k.
\* A descriptor without Svg makes the element type undefined, which React
\* refuses to render: the render throws.
MapStep ==
    /\ pc = "map"
    /\ k < len
    /\ IF HasField(featureList[k + 1], "Svg")
         THEN /\ acc' = Append(acc, Element(featureList[k + 1], k))
              /\ k' = k + 1
              /\ pc' = "map"
         ELSE /\ pc' = "error"
              /\ UNCHANGED <<acc, k>>
    /\ calls' = Append(calls, k)
    /\ UNCHANGED <<featureList, len, renders>>
    /\ UNCHANGED buildVars
    /\ UNCHANGED <<tutorialVars, accountVars>>

\* map() has visited every element: HomepageFeatures returns the section.
Return ==
    /\ pc = "map"
    /\ k = len
    /\ renders' = Append(renders, [input |-> featureList, output |-> Section(acc)])
    /\ pc' = "idle"
    /\ UNCHANGED <<featureList, len, k, acc, calls>>
    /\ UNCHANGED buildVars
    /\ UNCHANGED <<tutorialVars, accountVars>>

\* No program of the tutorials is running while the site is studied.
TutorialsIdle ==
    /\ logDir = <<>>
    /\ failedDir = [exists |-> FALSE, files |-> <<>>]
    /\ report = [exists |-> FALSE, lines |-> <<>>]
    /\ passed = 0
    /\ failed = 0
    /\ words = <<>>
    /\ todo = <<>>
    /\ spc = "idle"
    /\ runNo = 0
    /\ startDir = <<>>
    /\ shown = <<>>
    /\ size = 0
    /\ rpc = <<>>
    /\ stdout = <<>>
    /\ samples = 0
    /\ samplesPerRank = <<>>
    /\ atBarrier = {}
    /\ localInside = <<>>
    /\ contrib = {}
    /\ totalInside = 0
    /\ piEstimate = <<>>

\* No build is in progress while the renderer is studied on its own.
BuildIdle ==
    /\ clock = 0
    /\ phase = "start"
    /\ config = <<>>
    /\ evalYear = 0
    /\ evaluated = <<>>
    /\ reports = <<>>

\* Module load: FeatureList is bound, nothing has rendered yet.
InitRender ==
    /\ featureList \in FeatureLists
    /\ pc = "idle"
    /\ len = 0
    /\ k = 0
    /\ acc = <<>>
    /\ renders = <<>>
    /\ calls = <<>>
    /\ BuildIdle
    /\ TutorialsIdle
    /\ SeedIdle
    /\ AccountsIdle

NextRender == HomepageFeatures \/ MapStep \/ Return

SpecRender == InitRender /\ [][NextRender]_vars

\* A render is one synchronous call: once entered, map() and the return run
\* to completion (JavaScript runs a call to completion on its one thread).
SpecRenderFair == SpecRender /\ WF_vars(MapStep) /\ WF_vars(Return)

(***************************************************************************)
(* docusaurus.config.js                                                    *)
(***************************************************************************)
FirstYear == 2025   \* earliest year the build machine's clock shows
MaxTicks == 2       \* new years the clock may pass
MaxBuilds == 2      \* builds (deployments) per behaviour
MaxReports == 2     \* broken references found per build

\* title .. customFields (lines 13-30).
Metadata ==
    [title |-> "ACE UGANDA HPC Wiki",
     tagline |-> "High Performance Computing at the African Centre of Excellence in Bioinformatics and Data Intensive Sciences",
     favicon |-> "https://ace.ac.ug/wp-content/uploads/2022/04/cropped-android-chrome-512x512-2.png",
     url |-> "https://ace-bioinformatics.github.io",
     baseUrl |-> "/ace-ug-hpc-wiki/",
     organizationName |-> "ace-bioinformatics",
     projectName |-> "ace-hpc-wiki",
     customFields |-> [USE_SSH |-> TRUE]]

\* The broken-reference options with broken links only warned about.
BrokenLinkOptionsLenient ==
    [onBrokenLinks |-> "warn",
     onBrokenMarkdownLinks |-> "warn"]

\* onBrokenLinks, onBrokenMarkdownLinks (lines 32-33).
BrokenLinkOptions ==
    [onBrokenLinks |-> "throw",
     onBrokenMarkdownLinks |-> "warn"]

\* i18n (lines 38-46).
I18n ==
    [defaultLocale |-> "en",
     locales |-> <<"en">>,
     localeConfigs |-> [en |-> [htmlLang |-> "en-GB"]]]

\* presets (lines 48-80): one entry, the pair <<name, options>>.
Presets ==
    << [name |-> "classic",
        options |->
          [docs |-> [sidebarPath |-> "./sidebars.js",
                     editUrl |-> "https://github.com/facebook/docusaurus/tree/main/packages/create-docusaurus/templates/shared/"],
           blog |-> [showReadingTime |-> TRUE,
                     feedOptions |-> [type |-> <<"rss", "atom">>, xslt |-> TRUE],
                     editUrl |-> "https://github.com/facebook/docusaurus/tree/main/packages/create-docusaurus/templates/shared/",
                     onInlineTags |-> "warn",
                     onInlineAuthors |-> "warn",
                     onUntruncatedBlogPosts |-> "warn"],
           theme |-> [customCss |-> "./src/css/custom.css"]]] >>

\* themeConfig.navbar (lines 87-106).
Navbar ==
    [title |-> "ACE UGANDA HPC WIKI",
     logo |-> [alt |-> "ACE logo", src |-> "img/ace.png"],
     items |-> << [type |-> "docSidebar", sidebarId |-> "tutorialSidebar",
                   position |-> "left", label |-> "Wiki"],
                  [href |-> "https://github.com/ace-bioinformatics/ace-hpc-wiki",
                   label |-> "GitHub", position |-> "right"] >>]

\* themeConfig.footer.links (lines 109-145).
FooterLinks ==
    << [title |-> "Docs",
        items |-> << [label |-> "Get Started", to |-> "/docs/intro"] >>],
       [title |-> "Quick Links",
        items |-> << [label |-> "ACE Website", href |-> "https://ace.ac.ug"],
                     [label |-> "NIAID/NIH", href |-> "https://www.niaid.nih.gov/research/african-centers-excellence"],
                     [label |-> "X", href |-> "https://x.com/AceUganda?t=xKzAByMBVx5YtuP29hT95A&s=08"] >>],
       [title |-> "More",
        items |-> << [label |-> "GitHub", href |-> "https://github.com/ace-bioinformatics"] >>] >>

\* A copyright line with the year written into the source.
CopyrightHardCoded(year) ==
    "Copyright © " \o ToString(FirstYear) \o " ACE WIKI, ACE - Uganda."

\* `Copyright © ${new Date().getFullYear()} ACE WIKI, ACE - Uganda.` (line 146),
\* `year` being what new Date().getFullYear() returns.
Copyright(year) ==
    "Copyright © " \o ToString(year) \o " ACE WIKI, ACE - Uganda."

\* themeConfig (lines 82-152).
ThemeConfig(year) ==
    [image |-> "img/docusaurus-social-card.jpg",
     navbar |-> Navbar,
     footer |-> [style |-> "dark",
                 links |-> FooterLinks,
                 copyright |-> Copyright(year)],
     prism |-> [theme |-> "prismThemes.github",
                darkTheme |-> "prismThemes.dracula"]]

\* const config = { ... } evaluated when the clock shows `year`.
Config(year) ==
    Metadata @@ BrokenLinkOptions @@
    [i18n |-> I18n, presets |-> Presets, themeConfig |-> ThemeConfig(year)]

(***************************************************************************)
(* The build that consumes the configuration.  The build tool checks the   *)
(* references of the generated pages and handles a broken one at the       *)
(* severity the configuration gives for its kind; a kind the configuration *)
(* is silent about is handled at the tool's own default.                   *)
(***************************************************************************)
\* The kinds of broken reference and the option that sets the severity of each.
Kinds == {"link", "markdownLink", "anchor"}

OptionOf(kind) ==
    CASE kind = "link"         -> "onBrokenLinks"
      [] kind = "markdownLink" -> "onBrokenMarkdownLinks"
      [] kind = "anchor"       -> "onBrokenAnchors"

\* The severities an option can name.
Severities == {"ignore", "log", "warn", "throw"}

\* The severities a broken reference of `kind` can be handled at under cfg,
\* and whether the configuration or the tool's default decides.
Handling(cfg, kind) ==
    IF OptionOf(kind) \in DOMAIN cfg
      THEN { [kind |-> kind, severity |-> cfg[OptionOf(kind)], by |-> "config"] }
      ELSE { [kind |-> kind, severity |-> s, by |-> "default"] : s \in Severities }

\* The year changes on the build machine.
Tick ==
    /\ clock < FirstYear + MaxTicks
    /\ clock' = clock + 1
    /\ UNCHANGED <<phase, config, evalYear, evaluated, reports>>
    /\ UNCHANGED <<renderVars, tutorialVars, accountVars>>

\* The build tool imports the config module: the object literal is
\* evaluated (new Date() reads the clock) and exported.
EvalConfig ==
    /\ phase = "start"
    /\ config' = Config(clock)
    /\ evalYear' = clock
    /\ evaluated' = Append(evaluated, Config(clock))
    /\ phase' = "loaded"
    /\ UNCHANGED <<clock, reports>>
    /\ UNCHANGED <<renderVars, tutorialVars, accountVars>>

\* While generating the pages the tool finds a broken reference and handles
\* it: "throw" fails the build, every other severity lets it continue.
ReportBroken ==
    /\ phase = "loaded"
    /\ Len(reports) < MaxReports
    /\ \E kind \in Kinds :
         \E h \in Handling(config, kind) :
            /\ reports' = Append(reports, h)
            /\ phase' = IF h.severity = "throw" THEN "failed" ELSE "loaded"
    /\ UNCHANGED <<clock, config, evalYear, evaluated>>
    /\ UNCHANGED <<renderVars, tutorialVars, accountVars>>

\* The pages are generated: the build has produced its output.
FinishBuild ==
    /\ phase = "loaded"
    /\ phase' = "built"
    /\ UNCHANGED <<clock, config, evalYear, evaluated, reports>>
    /\ UNCHANGED <<renderVars, tutorialVars, accountVars>>

\* The output is handed to the HTTP server.
Serve ==
    /\ phase = "built"
    /\ phase' = "serving"
    /\ UNCHANGED <<clock, config, evalYear, evaluated, reports>>
    /\ UNCHANGED <<renderVars, tutorialVars, accountVars>>

\* The site is built again (a redeploy, or a retry after a failed build).
Rebuild ==
    /\ phase \in {"failed", "serving"}
    /\ Len(evaluated) < MaxBuilds
    /\ phase' = "start"
    /\ config' = <<>>
    /\ reports' = <<>>
    /\ UNCHANGED <<clock, evalYear, evaluated>>
    /\ UNCHANGED <<renderVars, tutorialVars, accountVars>>

\* No render is in progress while the build is studied on its own.
RenderIdle ==
    /\ featureList = FeatureList
    /\ pc = "idle"
    /\ len = 0
    /\ k = 0
    /\ acc = <<>>
    /\ renders = <<>>
    /\ calls = <<>>

\* A build is about to start.
InitBuild ==
    /\ clock \in FirstYear..(FirstYear + MaxTicks)
    /\ phase = "start"
    /\ config = <<>>
    /\ evalYear = 0
    /\ evaluated = <<>>
    /\ reports = <<>>
    /\ RenderIdle
    /\ TutorialsIdle
    /\ SeedIdle
    /\ AccountsIdle

NextBuild == Tick \/ EvalConfig \/ ReportBroken \/ FinishBuild \/ Serve \/ Rebuild

SpecBuild == InitBuild /\ [][NextBuild]_vars

(***************************************************************************)
(* summarize_run.sh (Linux basics tutorial, section 9)                     *)
(***************************************************************************)
MaxSamples == 3   \* sample logs the pipeline may write into LOG_DIR
MaxRuns == 2      \* runs of summarize_run.sh per behaviour

\* logs/sample_00i.log and a file of LOG_DIR that is no log.
LogName(i) == [stem |-> "sample_00" \o ToString(i), ext |-> ".log"]
NotesName == [stem |-> "notes", ext |-> ".txt"]
LogNamePool == { LogName(i) : i \in 1..MaxSamples }

\* What the pipeline writes into a log: the line of the tutorial's dummy
\* logs, and for a failed sample an ERROR line after it.
CleanLog(name) == << "Processing " \o name.stem \o "..." >>
FailedLog(name) == << "Processing " \o name.stem \o "...", "ERROR: alignment failed" >>

\* The directories LOG_DIR can be when the script starts: any of the sample
\* logs, each clean or failed, with or without the other file.
LogDirs ==
    UNION { [ns -> {"clean", "failed"}] : ns \in SUBSET LogNamePool }

DirOf(kinds, withNotes) ==
    [n \in DOMAIN kinds \cup (IF withNotes THEN {NotesName} ELSE {}) |->
        IF n = NotesName THEN << "ERROR in the notes" >>
        ELSE IF kinds[n] = "clean" THEN CleanLog(n) ELSE FailedLog(n)]

\* The .log files of a directory.
LogFiles(dir) == { n \in DOMAIN dir : n.ext = ".log" }

\* "$LOG_DIR"/*.log : the matching names in sorted order; a pattern that
\* matches nothing is left as it is (nullglob is not set), so the list then
\* holds the one word logs/*.log.
Glob(dir) ==
    LET all     == [i \in 1..MaxSamples |-> LogName(i)]
        present(n) == n \in LogFiles(dir)
        matches == SelectSeq(all, present)
    IN  IF matches = <<>> THEN << [stem |-> "*", ext |-> ".log"] >> ELSE matches

\* basename "$logfile" .log
Basename(word) == IF word.ext = ".log" THEN word.stem ELSE word.stem \o word.ext

\* Lines that contain the text ERROR, among the lines files are written from.
ErrorLines == { "ERROR: alignment failed", "ERROR: out of memory", "ERROR in the notes" }

\* grep -q "ERROR" "$logfile": status 0 iff the file exists and a line of it
\* contains ERROR (a missing file gives status 2, taken as false by if).
Grep(dir, word) ==
    /\ word \in DOMAIN dir
    /\ \E i \in DOMAIN dir[word] : dir[word][i] \in ErrorLines

\* A directory without the file `name`.
Without(dir, name) == [n \in DOMAIN dir \ {name} |-> dir[n]]

\* The five echo lines of the setup; runNo stands for the output of date.
Header(run) ==
    << "============================",
       "  Run Summary Report",
       "  " \o "date of run " \o ToString(run),
       "============================",
       "" >>

\* ./summarize_run.sh is started: a new shell, no variable set yet.
StartRun ==
    /\ spc \in {"idle", "done"}
    /\ runNo < MaxRuns
    /\ runNo' = runNo + 1
    /\ startDir' = logDir
    /\ spc' = "setup"
    /\ passed' = 0
    /\ failed' = 0
    /\ words' = <<>>
    /\ todo' = <<>>
    /\ UNCHANGED <<logDir, failedDir, report, shown>>
    /\ UNCHANGED <<siteVars, mpiVars, seedVars, accountVars>>

\* A setup that does not empty the report.
SetupAppending ==
    /\ spc = "setup"
    /\ failedDir' = [failedDir EXCEPT !.exists = TRUE]
    /\ report' = [exists |-> TRUE, lines |-> report.lines \o Header(runNo)]
    /\ passed' = 0
    /\ failed' = 0
    /\ spc' = "for"
    /\ UNCHANGED <<logDir, words, todo, runNo, startDir, shown>>
    /\ UNCHANGED <<siteVars, mpiVars, seedVars, accountVars>>

\* mkdir -p "$FAILED_DIR"; > "$REPORT"; passed=0; failed=0; the header echos.
Setup ==
    /\ spc = "setup"
    /\ failedDir' = [failedDir EXCEPT !.exists = TRUE]
    /\ report' = [exists |-> TRUE, lines |-> Header(runNo)]
    /\ passed' = 0
    /\ failed' = 0
    /\ spc' = "for"
    /\ UNCHANGED <<logDir, words, todo, runNo, startDir, shown>>
    /\ UNCHANGED <<siteVars, mpiVars, seedVars, accountVars>>

\* for logfile in "$LOG_DIR"/*.log : the word list is expanded once.
ForExpand ==
    /\ spc = "for"
    /\ words' = Glob(logDir)
    /\ todo' = Glob(logDir)
    /\ spc' = "loop"
    /\ UNCHANGED <<logDir, failedDir, report, passed, failed, runNo, startDir, shown>>
    /\ UNCHANGED <<siteVars, mpiVars, seedVars, accountVars>>

\* A loop body that counts every sample as passed.
LoopBodyMiscount ==
    /\ spc = "loop"
    /\ todo # <<>>
    /\ LET logfile == Head(todo)
           sample  == Basename(logfile)
       IN  IF Grep(logDir, logfile)
             THEN /\ report' = [report EXCEPT !.lines = Append(@, "FAILED  " \o sample)]
                  /\ failedDir' = [failedDir EXCEPT
                                     !.files = [n \in DOMAIN @ \cup {logfile} |->
                                                  IF n = logfile THEN logDir[logfile] ELSE @[n]]]
                  /\ logDir' = Without(logDir, logfile)
                  /\ passed' = passed + 1
                  /\ UNCHANGED failed
             ELSE /\ report' = [report EXCEPT !.lines = Append(@, "PASSED  " \o sample)]
                  /\ passed' = passed + 1
                  /\ UNCHANGED <<failed, logDir, failedDir>>
    /\ todo' = Tail(todo)
    /\ UNCHANGED <<words, spc, runNo, startDir, shown>>
    /\ UNCHANGED <<siteVars, mpiVars, seedVars, accountVars>>

\* A loop body that copies a failed log instead of moving it.
LoopBodyCopying ==
    /\ spc = "loop"
    /\ todo # <<>>
    /\ LET logfile == Head(todo)
           sample  == Basename(logfile)
       IN  IF Grep(logDir, logfile)
             THEN /\ report' = [report EXCEPT !.lines = Append(@, "FAILED  " \o sample)]
                  /\ failedDir' = [failedDir EXCEPT
                                     !.files = [n \in DOMAIN @ \cup {logfile} |->
                                                  IF n = logfile THEN logDir[logfile] ELSE @[n]]]
                  /\ failed' = failed + 1
                  /\ UNCHANGED <<passed, logDir>>
             ELSE /\ report' = [report EXCEPT !.lines = Append(@, "PASSED  " \o sample)]
                  /\ passed' = passed + 1
                  /\ UNCHANGED <<failed, logDir, failedDir>>
    /\ todo' = Tail(todo)
    /\ UNCHANGED <<words, spc, runNo, startDir, shown>>
    /\ UNCHANGED <<siteVars, mpiVars, seedVars, accountVars>>

\* One iteration of the for loop: the sample name, the grep, and the branch
\* taken (FAILED line, mv into FAILED_DIR, failed++ / PASSED line, passed++).
LoopBody ==
    /\ spc = "loop"
    /\ todo # <<>>
    /\ LET logfile == Head(todo)
           sample  == Basename(logfile)
       IN  IF Grep(logDir, logfile)
             THEN /\ report' = [report EXCEPT !.lines = Append(@, "FAILED  " \o sample)]
                  /\ failedDir' = [failedDir EXCEPT
                                     !.files = [n \in DOMAIN @ \cup {logfile} |->
                                                  IF n = logfile THEN logDir[logfile] ELSE @[n]]]
                  /\ logDir' = Without(logDir, logfile)
                  /\ failed' = failed + 1
                  /\ UNCHANGED passed
             ELSE /\ report' = [report EXCEPT !.lines = Append(@, "PASSED  " \o sample)]
                  /\ passed' = passed + 1
                  /\ UNCHANGED <<failed, logDir, failedDir>>
    /\ todo' = Tail(todo)
    /\ UNCHANGED <<words, spc, runNo, startDir, shown>>
    /\ UNCHANGED <<siteVars, mpiVars, seedVars, accountVars>>

\* done: the word list is used up.
LoopDone ==
    /\ spc = "loop"
    /\ todo = <<>>
    /\ spc' = "totals"
    /\ UNCHANGED <<logDir, failedDir, report, passed, failed, words, todo, runNo,
                   startDir, shown>>
    /\ UNCHANGED <<siteVars, mpiVars, seedVars, accountVars>>

\* The five echo lines of the totals, then cat "$REPORT".
PrintTotals ==
    /\ spc = "totals"
    /\ report' = [report EXCEPT !.lines = @ \o
                    << "",
                       "----------------------------",
                       "Total passed: " \o ToString(passed),
                       "Total failed: " \o ToString(failed),
                       "Total samples: " \o ToString(passed + failed) >>]
    /\ shown' = report'.lines
    /\ spc' = "done"
    /\ UNCHANGED <<logDir, failedDir, passed, failed, words, todo, runNo, startDir>>
    /\ UNCHANGED <<siteVars, mpiVars, seedVars, accountVars>>

\* Between runs of the script the pipeline writes (or rewrites) a sample log.
PipelineWritesLog ==
    /\ spc \in {"idle", "done"}
    /\ runNo < MaxRuns
    /\ \E n \in LogNamePool :
         \E lines \in {CleanLog(n), FailedLog(n)} :
            logDir' = [m \in DOMAIN logDir \cup {n} |-> IF m = n THEN lines ELSE logDir[m]]
    /\ UNCHANGED <<failedDir, report, passed, failed, words, todo, spc, runNo,
                   startDir, shown>>
    /\ UNCHANGED <<siteVars, mpiVars, seedVars, accountVars>>

\* No MPI program is running.
MpiIdle ==
    /\ size = 0
    /\ rpc = <<>>
    /\ stdout = <<>>
    /\ samples = 0
    /\ samplesPerRank = <<>>
    /\ atBarrier = {}
    /\ localInside = <<>>
    /\ contrib = {}
    /\ totalInside = 0
    /\ piEstimate = <<>>

\* The tutorial directory before the script has ever run.
InitSummarize ==
    /\ \E kinds \in LogDirs : \E withNotes \in BOOLEAN : logDir = DirOf(kinds, withNotes)
    /\ failedDir = [exists |-> FALSE, files |-> <<>>]
    /\ report = [exists |-> FALSE, lines |-> <<>>]
    /\ passed = 0
    /\ failed = 0
    /\ words = <<>>
    /\ todo = <<>>
    /\ spc = "idle"
    /\ runNo = 0
    /\ startDir = <<>>
    /\ shown = <<>>
    /\ MpiIdle
    /\ RenderIdle
    /\ BuildIdle
    /\ SeedIdle
    /\ AccountsIdle

NextSummarize ==
    StartRun \/ Setup \/ ForExpand \/ LoopBody \/ LoopDone \/ PrintTotals
    \/ PipelineWritesLog

SpecSummarize == InitSummarize /\ [][NextSummarize]_vars

(***************************************************************************)
(* estimate_pi_mpi.py and mpi_hello.py (containers tutorials), run by      *)
(* mpirun as `size` processes that execute main() concurrently.            *)
(***************************************************************************)
MaxRanks == 3       \* most processes mpirun starts
MaxRequested == 4   \* largest "samples" argument

Ranks == 0..(size - 1)

RECURSIVE SumTo(_, _)
\* f[0] + ... + f[n]  (MPI.SUM over the ranks 0..n)
SumTo(f, n) == IF n < 0 THEN 0 ELSE f[n] + SumTo(f, n - 1)

\* The ranks are started; each has run nothing of main() yet.
StartedRanks ==
    /\ size \in 1..MaxRanks
    /\ rpc = [r \in 0..(size - 1) |-> "start"]
    /\ stdout = <<>>
    /\ samplesPerRank = [r \in 0..(size - 1) |-> 0]
    /\ atBarrier = {}
    /\ localInside = [r \in 0..(size - 1) |-> 0]
    /\ contrib = {}
    /\ totalInside = 0
    /\ piEstimate = <<>>

\* estimate_pi_mpi.py, main() up to the announcement: the arguments are
\* parsed, samples_per_rank = args.samples // size, and rank 0 prints the
\* total it was asked for.
Begin(r) ==
    /\ rpc[r] = "start"
    /\ samplesPerRank' = [samplesPerRank EXCEPT ![r] = samples \div size]
    /\ stdout' = IF r = 0
                   THEN Append(stdout, [rank |-> 0, line |-> "Estimating Pi", n |-> samples, d |-> size])
                   ELSE stdout
    /\ rpc' = [rpc EXCEPT ![r] = "compute"]
    /\ UNCHANGED <<size, samples, atBarrier, localInside, contrib, totalInside, piEstimate>>
    /\ UNCHANGED <<siteVars, scriptVars, seedVars, accountVars>>

\* local_inside = monte_carlo_pi(samples_per_rank): the number of the
\* samples_per_rank random points that fall inside the quarter circle.
Compute(r) ==
    /\ rpc[r] = "compute"
    /\ \E inside \in 0..samplesPerRank[r] :
         localInside' = [localInside EXCEPT ![r] = inside]
    /\ rpc' = [rpc EXCEPT ![r] = "reduce"]
    /\ UNCHANGED <<size, stdout, samples, samplesPerRank, atBarrier, contrib, totalInside, piEstimate>>
    /\ UNCHANGED <<siteVars, scriptVars, seedVars, accountVars>>

\* comm.reduce(local_inside, op=MPI.SUM, root=0) is called: the rank's value
\* enters the reduction.  A rank other than the root returns (with None);
\* the root waits for the result.
ReduceEnter(r) ==
    /\ rpc[r] = "reduce"
    /\ contrib' = contrib \cup {r}
    /\ rpc' = [rpc EXCEPT ![r] = IF r = 0 THEN "wait" ELSE "report"]
    /\ UNCHANGED <<size, stdout, samples, samplesPerRank, atBarrier, localInside, totalInside, piEstimate>>
    /\ UNCHANGED <<siteVars, scriptVars, seedVars, accountVars>>

\* A reduce that returns at the root with what has arrived so far.
ReduceReturnEarly ==
    /\ rpc[0] = "wait"
    /\ totalInside' = SumTo([r \in Ranks |-> IF r \in contrib THEN localInside[r] ELSE 0], size - 1)
    /\ rpc' = [rpc EXCEPT ![0] = "estimate"]
    /\ UNCHANGED <<size, stdout, samples, samplesPerRank, atBarrier, localInside, contrib, piEstimate>>
    /\ UNCHANGED <<siteVars, scriptVars, seedVars, accountVars>>

\* comm.reduce returns at the root once the value of every rank has arrived:
\* total_inside is their sum.
ReduceReturn ==
    /\ rpc[0] = "wait"
    /\ contrib = Ranks
    /\ totalInside' = SumTo(localInside, size - 1)
    /\ rpc' = [rpc EXCEPT ![0] = "estimate"]
    /\ UNCHANGED <<size, stdout, samples, samplesPerRank, atBarrier, localInside, contrib, piEstimate>>
    /\ UNCHANGED <<siteVars, scriptVars, seedVars, accountVars>>

\* if rank == 0: pi_estimate = 4 * total_inside / (samples_per_rank * size),
\* kept as the pair <<numerator, denominator>>, and the estimate is printed.
Estimate ==
    /\ rpc[0] = "estimate"
    /\ piEstimate' = << 4 * totalInside, samplesPerRank[0] * size >>
    /\ stdout' = Append(stdout, [rank |-> 0, line |-> "Estimate",
                                 n |-> 4 * totalInside, d |-> samplesPerRank[0] * size])
    /\ rpc' = [rpc EXCEPT ![0] = "report"]
    /\ UNCHANGED <<size, samples, samplesPerRank, atBarrier, localInside, contrib, totalInside>>
    /\ UNCHANGED <<siteVars, scriptVars, seedVars, accountVars>>

\* Every rank reports its hits and the number of samples it drew.
Report(r) ==
    /\ rpc[r] = "report"
    /\ stdout' = Append(stdout, [rank |-> r, line |-> "Rank",
                                 n |-> localInside[r], d |-> samplesPerRank[r]])
    /\ rpc' = [rpc EXCEPT ![r] = "done"]
    /\ UNCHANGED <<size, samples, samplesPerRank, atBarrier, localInside, contrib, totalInside, piEstimate>>
    /\ UNCHANGED <<siteVars, scriptVars, seedVars, accountVars>>

\* No run of summarize_run.sh is in progress.
ScriptIdle ==
    /\ logDir = <<>>
    /\ failedDir = [exists |-> FALSE, files |-> <<>>]
    /\ report = [exists |-> FALSE, lines |-> <<>>]
    /\ passed = 0
    /\ failed = 0
    /\ words = <<>>
    /\ todo = <<>>
    /\ spc = "idle"
    /\ runNo = 0
    /\ startDir = <<>>
    /\ shown = <<>>

\* mpirun -np size ... estimate_pi_mpi.py samples
InitPi ==
    /\ samples \in 0..MaxRequested
    /\ StartedRanks
    /\ ScriptIdle
    /\ RenderIdle
    /\ BuildIdle
    /\ SeedIdle
    /\ AccountsIdle

NextPi ==
    \/ \E r \in Ranks : Begin(r)
    \/ \E r \in Ranks : Compute(r)
    \/ \E r \in Ranks : ReduceEnter(r)
    \/ \E r \in Ranks : Report(r)
    \/ ReduceReturn
    \/ Estimate

SpecPi == InitPi /\ [][NextPi]_vars

\* mpi_hello.py: print(f"Hello from rank {rank}/{size} on {hostname}")
Hello(r) ==
    /\ rpc[r] = "start"
    /\ stdout' = Append(stdout, [rank |-> r, line |-> "Hello from rank", n |-> r, d |-> size])
    /\ rpc' = [rpc EXCEPT ![r] = "hello"]
    /\ UNCHANGED <<size, samples, samplesPerRank, atBarrier, localInside, contrib, totalInside, piEstimate>>
    /\ UNCHANGED <<siteVars, scriptVars, seedVars, accountVars>>

\* comm.Barrier() is called.
BarrierEnter(r) ==
    /\ rpc[r] = "hello"
    /\ atBarrier' = atBarrier \cup {r}
    /\ rpc' = [rpc EXCEPT ![r] = "barrier"]
    /\ UNCHANGED <<size, stdout, samples, samplesPerRank, localInside, contrib, totalInside, piEstimate>>
    /\ UNCHANGED <<siteVars, scriptVars, seedVars, accountVars>>

\* A barrier that lets a rank through as soon as rank 0 has entered it.
BarrierLeaveEarly(r) ==
    /\ rpc[r] = "barrier"
    /\ 0 \in atBarrier
    /\ rpc' = [rpc EXCEPT ![r] = IF r = 0 THEN "info" ELSE "done"]
    /\ UNCHANGED <<size, stdout, samples, samplesPerRank, atBarrier, localInside, contrib, totalInside, piEstimate>>
    /\ UNCHANGED <<siteVars, scriptVars, seedVars, accountVars>>

\* comm.Barrier() returns: every rank of the communicator has entered it.
BarrierLeave(r) ==
    /\ rpc[r] = "barrier"
    /\ atBarrier = Ranks
    /\ rpc' = [rpc EXCEPT ![r] = IF r = 0 THEN "info" ELSE "done"]
    /\ UNCHANGED <<size, stdout, samples, samplesPerRank, atBarrier, localInside, contrib, totalInside, piEstimate>>
    /\ UNCHANGED <<siteVars, scriptVars, seedVars, accountVars>>

\* if rank == 0: the MPI Info summary is printed.
PrintInfo ==
    /\ rpc[0] = "info"
    /\ stdout' = Append(stdout, [rank |-> 0, line |-> "MPI Info", n |-> size, d |-> size])
    /\ rpc' = [rpc EXCEPT ![0] = "done"]
    /\ UNCHANGED <<size, samples, samplesPerRank, atBarrier, localInside, contrib, totalInside, piEstimate>>
    /\ UNCHANGED <<siteVars, scriptVars, seedVars, accountVars>>

\* mpirun -np size ... mpi_hello.py
InitHello ==
    /\ samples = 0
    /\ StartedRanks
    /\ ScriptIdle
    /\ RenderIdle
    /\ BuildIdle
    /\ SeedIdle
    /\ AccountsIdle

NextHello ==
    \/ \E r \in Ranks : Hello(r)
    \/ \E r \in Ranks : BarrierEnter(r)
    \/ \E r \in Ranks : BarrierLeave(r)
    \/ PrintInfo

SpecHello == InitHello /\ [][NextHello]_vars

(***************************************************************************)
(* estimate_pi.py (containerize-code tutorial).  numpy's global generator  *)
(* is a deterministic state machine: seed() sets its state from the seed   *)
(* alone, every draw is a function of the state and advances it, and a     *)
(* process that never calls seed() starts from a state taken from the      *)
(* operating system's entropy.  A small generator of that shape stands     *)
(* for it; draws are multiples of 1/8 in [0, 1).                           *)
(***************************************************************************)
MaxDraws == 3   \* largest "samples" argument of estimate_pi.py
MaxSeed == 1    \* largest --seed argument

\* np.random.seed(s): the state of the generator after seeding.
SeedState(s) == (s + 2) % 8

\* The generator's state after one more draw.
Advance(st) == (5 * st + 3) % 8

\* The number a draw returns in state st, in eighths.
Output(st) == st

RECURSIVE Uniform(_, _)
\* np.random.uniform(0, 1, n) from state st: the n values and the state left.
Uniform(st, n) ==
    IF n = 0 THEN [values |-> <<>>, state |-> st]
    ELSE LET rest == Uniform(Advance(st), n - 1)
         IN  [values |-> <<Output(Advance(st))>> \o rest.values, state |-> rest.state]

\* np.sum(x**2 + y**2 <= 1) for x, y given in eighths.
InsideCircle(x, y) ==
    Cardinality({i \in DOMAIN x : x[i] * x[i] + y[i] * y[i] <= 64})

Abs(n) == IF n < 0 THEN 0 - n ELSE n

\* abs(pi_estimate - np.pi) for pi_estimate = <<numerator, denominator>>,
\* with 355/113 for np.pi; again a pair <<numerator, denominator>>.
Error(est) == << Abs(113 * est[1] - 355 * est[2]), 113 * est[2] >>

\* The arguments a user can give: seed <<>> when --seed is absent.
Arguments ==
    [samples : 0..MaxDraws, seed : {<<>>} \cup {<<s>> : s \in 0..MaxSeed}]

\* python estimate_pi.py samples [--seed s]: a new process, its generator in
\* a state drawn from entropy, parses its arguments.  Two runs are compared.
Launch ==
    /\ epc \in {"off", "exit"}
    /\ Len(printed) < 2
    /\ args' \in Arguments
    /\ rng' \in 0..7
    /\ insideCircle' = 0
    /\ results' = <<>>
    /\ epc' = "parsed"
    /\ UNCHANGED printed
    /\ UNCHANGED <<siteVars, scriptVars, mpiVars, accountVars>>

\* A seeding on truthiness (if args.seed:), which skips --seed 0.
SeedIfTruthy ==
    /\ epc = "parsed"
    /\ rng' = IF args.seed # <<>> /\ args.seed # <<0>> THEN SeedState(args.seed[1]) ELSE rng
    /\ epc' = "seeded"
    /\ UNCHANGED <<args, insideCircle, results, printed>>
    /\ UNCHANGED <<siteVars, scriptVars, mpiVars, accountVars>>

\* if args.seed is not None: np.random.seed(args.seed)
Seed ==
    /\ epc = "parsed"
    /\ rng' = IF args.seed # <<>> THEN SeedState(args.seed[1]) ELSE rng
    /\ epc' = "seeded"
    /\ UNCHANGED <<args, insideCircle, results, printed>>
    /\ UNCHANGED <<siteVars, scriptVars, mpiVars, accountVars>>

\* pi_estimate = estimate_pi(args.samples): x is drawn, then y, and the
\* estimate is 4 * inside_circle / num_samples (0/0 for no samples).
EstimatePi ==
    /\ epc = "seeded"
    /\ LET x == Uniform(rng, args.samples)
           y == Uniform(x.state, args.samples)
           inside == InsideCircle(x.values, y.values)
       IN  /\ rng' = y.state
           /\ insideCircle' = inside
           /\ results' = [samples |-> args.samples,
                          estimate |-> << 4 * inside, args.samples >>]
    /\ epc' = "sampled"
    /\ UNCHANGED <<args, printed>>
    /\ UNCHANGED <<siteVars, scriptVars, mpiVars, accountVars>>

\* error = abs(pi_estimate - np.pi); the Estimate and Error lines are
\* printed and the process ends.
PrintResults ==
    /\ epc = "sampled"
    /\ printed' = Append(printed, [args |-> args,
                                   estimate |-> results.estimate,
                                   error |-> Error(results.estimate)])
    /\ results' = [samples |-> results.samples,
                   estimate |-> results.estimate,
                   error |-> Error(results.estimate)]
    /\ epc' = "exit"
    /\ UNCHANGED <<args, rng, insideCircle>>
    /\ UNCHANGED <<siteVars, scriptVars, mpiVars, accountVars>>

InitEstimate ==
    /\ SeedIdle
    /\ ScriptIdle
    /\ MpiIdle
    /\ RenderIdle
    /\ BuildIdle
    /\ AccountsIdle

NextEstimate ==
    \/ Launch
    \/ Seed
    \/ EstimatePi
    \/ PrintResults

SpecEstimate == InitEstimate /\ [][NextEstimate]_vars

(***************************************************************************)
(* Getting an account (docs/getting-started: "Steps"; docs/support/faq).   *)
(* One applicant and the ACE HPC team; each heading of "Steps" is a step.  *)
(***************************************************************************)
PassMark == 14     \* "a pass mark of 14 out of 15"
QuizMarks == 15
MaxAttempts == 3   \* quiz attempts counted exactly; more are counted as this many

Min(a, b) == IF a < b THEN a ELSE b

\* "Submit a Request via the ACE Ticketing System"
SubmitRequest ==
    /\ stage = "none"
    /\ stage' = "requested"
    /\ events' = Append(events, "request")
    /\ UNCHANGED <<experienced, score, attempts>>
    /\ UNCHANGED <<siteVars, tutorialVars>>

\* "Complete the ACE HPC Account Request Form": after the request.
CompleteForm ==
    /\ stage = "requested"
    /\ stage' = "form submitted"
    /\ events' = Append(events, "form")
    /\ UNCHANGED <<experienced, score, attempts>>
    /\ UNCHANGED <<siteVars, tutorialVars>>

\* "Form Review by the ACE Team": once the form is submitted; the team also
\* assesses whether the applicant knows Linux and SLURM already.
FormReview ==
    /\ stage = "form submitted"
    /\ experienced' \in BOOLEAN
    /\ stage' = "reviewed"
    /\ events' = Append(events, "review")
    /\ UNCHANGED <<score, attempts>>
    /\ UNCHANGED <<siteVars, tutorialVars>>

\* "Learning Linux Basics and SLURM for new users": if the review indicates
\* that the user lacks experience, the training materials are provided.
ProvideMaterials ==
    /\ stage = "reviewed"
    /\ experienced = FALSE
    /\ stage' = "studying"
    /\ events' = Append(events, "materials")
    /\ UNCHANGED <<experienced, score, attempts>>
    /\ UNCHANGED <<siteVars, tutorialVars>>

\* The user emails support to confirm the materials have been studied.
ConfirmStudy ==
    /\ stage = "studying"
    /\ stage' = "study confirmed"
    /\ events' = Append(events, "study confirmed")
    /\ UNCHANGED <<experienced, score, attempts>>
    /\ UNCHANGED <<siteVars, tutorialVars>>

\* A team that hands an experienced applicant the policy without a quiz.
ProvideQuizUnlessExperienced ==
    /\ \/ stage = "study confirmed"
       \/ stage = "reviewed" /\ experienced = TRUE
    /\ stage' = IF experienced = TRUE THEN "policy" ELSE "quiz"
    /\ events' = Append(events, IF experienced = TRUE THEN "policy sent" ELSE "quiz provided")
    /\ UNCHANGED <<experienced, score, attempts>>
    /\ UNCHANGED <<siteVars, tutorialVars>>

\* "The team will then provide a quiz": to a new user after the confirmation;
\* an applicant found experienced has no materials to study and gets the quiz
\* after the review ("new accounts require completing the Linux/SLURM quiz").
ProvideQuiz ==
    /\ \/ stage = "study confirmed"
       \/ stage = "reviewed" /\ experienced = TRUE
    /\ stage' = "quiz"
    /\ events' = Append(events, "quiz provided")
    /\ UNCHANGED <<experienced, score, attempts>>
    /\ UNCHANGED <<siteVars, tutorialVars>>

\* A quiz marked one point more leniently.
AttemptQuizLenient ==
    /\ stage = "quiz"
    /\ \E marks \in 0..QuizMarks :
         /\ score' = marks
         /\ stage' = IF marks >= PassMark - 1 THEN "passed" ELSE "review again"
         /\ events' = IF marks >= PassMark - 1 THEN Append(events, "quiz passed") ELSE events
    /\ attempts' = Min(attempts + 1, MaxAttempts)
    /\ UNCHANGED experienced
    /\ UNCHANGED <<siteVars, tutorialVars>>

\* "Complete the Linux and SLURM Quiz": an attempt is marked out of 15; with
\* the pass mark the user has passed, otherwise the user is asked to review
\* the materials again.
AttemptQuiz ==
    /\ stage = "quiz"
    /\ \E marks \in 0..QuizMarks :
         /\ score' = marks
         /\ stage' = IF marks >= PassMark THEN "passed" ELSE "review again"
         /\ events' = IF marks >= PassMark THEN Append(events, "quiz passed") ELSE events
    /\ attempts' = Min(attempts + 1, MaxAttempts)
    /\ UNCHANGED experienced
    /\ UNCHANGED <<siteVars, tutorialVars>>

\* "... review the materials again and retake the quiz until they pass"
ReviewAgain ==
    /\ stage = "review again"
    /\ stage' = "quiz"
    /\ UNCHANGED <<experienced, score, attempts, events>>
    /\ UNCHANGED <<siteVars, tutorialVars>>

\* "Upon passing the quiz, users will receive the ACE HPC Policy document"
SendPolicy ==
    /\ stage = "passed"
    /\ stage' = "policy"
    /\ events' = Append(events, "policy sent")
    /\ UNCHANGED <<experienced, score, attempts>>
    /\ UNCHANGED <<siteVars, tutorialVars>>

\* "A signed copy of the policy must be returned to the support team"
ReturnSignedPolicy ==
    /\ stage = "policy"
    /\ stage' = "signed"
    /\ events' = Append(events, "policy signed")
    /\ UNCHANGED <<experienced, score, attempts>>
    /\ UNCHANGED <<siteVars, tutorialVars>>

\* A team that creates the account as soon as it has sent the policy.
CreateAccountUnsigned ==
    /\ stage \in {"policy", "signed"}
    /\ stage' = "account"
    /\ events' = Append(events, "account")
    /\ UNCHANGED <<experienced, score, attempts>>
    /\ UNCHANGED <<siteVars, tutorialVars>>

\* "Account Creation": once the signed policy is received.
CreateAccount ==
    /\ stage = "signed"
    /\ stage' = "account"
    /\ events' = Append(events, "account")
    /\ UNCHANGED <<experienced, score, attempts>>
    /\ UNCHANGED <<siteVars, tutorialVars>>

\* "Receive Account Details": after the account is created.
SendCredentials ==
    /\ stage = "account"
    /\ stage' = "credentials"
    /\ events' = Append(events, "credentials")
    /\ UNCHANGED <<experienced, score, attempts>>
    /\ UNCHANGED <<siteVars, tutorialVars>>

InitAccounts ==
    /\ AccountsIdle
    /\ SeedIdle
    /\ ScriptIdle
    /\ MpiIdle
    /\ RenderIdle
    /\ BuildIdle

NextAccounts ==
    \/ SubmitRequest
    \/ CompleteForm
    \/ FormReview
    \/ ProvideMaterials
    \/ ConfirmStudy
    \/ ProvideQuiz
    \/ AttemptQuiz
    \/ ReviewAgain
    \/ SendPolicy
    \/ ReturnSignedPolicy
    \/ CreateAccount
    \/ SendCredentials

SpecAccounts == InitAccounts /\ [][NextAccounts]_vars

(***************************************************************************)
(* Layout of the row: the grid of the site's stylesheet framework.  The    *)
(* "row" container wraps its "col" children onto lines of GridColumns      *)
(* columns; a child of class col--N spans N of them.                       *)
(***************************************************************************)
GridColumns == 12

ColSpan(className) ==
    CASE className = "col col--4" -> 4
      [] className = "col col--6" -> 6
      [] className = "col col--3" -> 3
      [] OTHER -> GridColumns

RECURSIVE PlaceFrom(_, _, _, _)
\* The line (0-based) each child from position i on is put on, line `row`
\* having `used` columns taken so far.
PlaceFrom(spans, i, row, used) ==
    IF i > Len(spans) THEN <<>>
    ELSE LET w    == spans[i]
             wrap == used + w > GridColumns
             r    == IF wrap THEN row + 1 ELSE row
             u    == IF wrap THEN w ELSE used + w
         IN  <<r>> \o PlaceFrom(spans, i + 1, r, u)

\* The line of every child of a row container.
RowsOf(blocks) ==
    PlaceFrom([i \in 1..Len(blocks) |-> ColSpan(blocks[i].block.className)], 1, 0, 0)

(***************************************************************************)
(* Claims about the feature grid                                           *)
(***************************************************************************)
\* The blocks of a returned section.
Blocks(render) == render.output.container.row.children

\* C1: HomepageFeatures renders the blocks in the order of the list: in
\* every returned section, for every index i of the list, the i-th block
\* carries the title, the graphic and the description of the i-th descriptor
\* (and, while map() runs, so does every block built so far).
C1_OrderPreserved ==
    /\ \A r \in DOMAIN renders :
         \A i \in 1..Len(renders[r].input) :
            /\ i \in DOMAIN Blocks(renders[r])
            /\ Blocks(renders[r])[i].block.heading.children = <<renders[r].input[i].title>>
            /\ Blocks(renders[r])[i].block.svg # <<>>
            /\ Blocks(renders[r])[i].block.svg[1].type = renders[r].input[i].Svg
            /\ Blocks(renders[r])[i].block.p = <<renders[r].input[i].description>>
    /\ pc = "map" =>
         \A i \in DOMAIN acc :
            /\ acc[i].block.heading.children = <<featureList[i].title>>
            /\ acc[i].block.p = <<featureList[i].description>>

\* C1 witness: a section returned for a list of three different descriptors.
C1_Witness ==
    \E r \in DOMAIN renders :
        /\ renders[r].input = FeatureList
        /\ Len(Blocks(renders[r])) = 3
        /\ Blocks(renders[r])[1].block.heading.children # Blocks(renders[r])[3].block.heading.children

\* C2: the number of blocks equals the length of the list: every returned
\* section has exactly one block per descriptor, with the keys 0..n-1 each
\* used once, and map() has built exactly k blocks after visiting k elements.
C2_CountPreserved ==
    /\ \A r \in DOMAIN renders :
         /\ Len(Blocks(renders[r])) = Len(renders[r].input)
         /\ \A i \in DOMAIN Blocks(renders[r]) : Blocks(renders[r])[i].key = i - 1
    /\ pc = "map" => Len(acc) = k /\ k <= len

\* C2 witness: a section returned for the longest list explored.
C2_Witness ==
    \E r \in DOMAIN renders :
        /\ Len(renders[r].input) = MaxLen
        /\ Len(Blocks(renders[r])) = MaxLen

\* C3: two renders of the same list return the same section.
C3_Deterministic ==
    \A r1, r2 \in DOMAIN renders :
        renders[r1].input = renders[r2].input => renders[r1].output = renders[r2].output

\* C3 witness: the three-entry FeatureList has been rendered twice.
C3_Witness ==
    /\ Len(renders) >= 2
    /\ renders[1].input = FeatureList
    /\ renders[2].input = FeatureList
    /\ Len(Blocks(renders[2])) = 3

\* C4: no step of a render changes FeatureList: its length, its order and
\* its field values stay what they were at module load.
C4_ListNeverMutated == [][featureList' = featureList]_vars

\* C4 witness: after the renders the list is still the one every render read.
C4_Witness ==
    /\ Len(renders) = MaxRenders
    /\ featureList = FeatureList
    /\ \A r \in DOMAIN renders : renders[r].input = FeatureList

\* C5: a render never ends in an error, and every block emitted has a
\* graphic, a title and a description: no descriptor lacks a field that
\* Feature reads.
C5_NoMissingField ==
    /\ pc # "error"
    /\ \A i \in DOMAIN featureList :
         /\ HasField(featureList[i], "Svg")
         /\ HasField(featureList[i], "title")
         /\ HasField(featureList[i], "description")
    /\ \A i \in DOMAIN acc :
         /\ acc[i].block.svg # <<>>
         /\ acc[i].block.heading.children # <<>>
         /\ acc[i].block.p # <<>>

\* C5 witness: map() has emitted a block for every descriptor of FeatureList.
C5_Witness ==
    /\ featureList = FeatureList
    /\ pc = "map"
    /\ k = len
    /\ Len(acc) = 3

\* C6: three blocks per row: every block spans 4 of the 12 columns, so
\* block i (counted from 1) lies on line (i-1) \div 3 of the row container,
\* and the three-entry FeatureList fills exactly one line.
C6_ThreePerRow ==
    \A r \in DOMAIN renders :
        LET blocks == Blocks(renders[r])
            rows   == RowsOf(blocks)
        IN  /\ \A i \in DOMAIN blocks :
                 /\ ColSpan(blocks[i].block.className) * 3 = GridColumns
                 /\ rows[i] = (i - 1) \div 3
            /\ renders[r].input = FeatureList =>
                 /\ Len(blocks) = 3
                 /\ \A i \in DOMAIN blocks : rows[i] = 0

\* C6 witness: a returned section of four blocks, the fourth on a second line.
C6_Witness ==
    \E r \in DOMAIN renders :
        /\ Len(Blocks(renders[r])) = 4
        /\ RowsOf(Blocks(renders[r])) = <<0, 0, 0, 1>>

\* The indexes 0 .. n-1 in order.
Indexes(n) == [i \in 1..n |-> i - 1]

\* C11: a render is one synchronous pass that terminates: once entered it
\* returns; every step of it either visits the next element or returns (no
\* step goes back, repeats an element or abandons the pass); and Feature is
\* invoked exactly once per descriptor, in order.
C11_SinglePassTerminates ==
    /\ (pc = "map") ~> (pc = "idle")
    /\ [](pc = "map" => calls = Indexes(k) /\ k <= len /\ len = Len(featureList))
    /\ []((pc = "idle" /\ renders # <<>>) => calls = Indexes(Len(featureList)))
    /\ [][pc = "map" => \/ pc' = "map" /\ k' = k + 1 /\ len' = len
                        \/ pc' = "idle" /\ k = len /\ Len(renders') = Len(renders) + 1]_vars

\* C11 witness: a render of FeatureList has returned after invoking Feature
\* for the indexes 0, 1, 2.
C11_Witness ==
    /\ pc = "idle"
    /\ Len(renders) = 1
    /\ renders[1].input = FeatureList
    /\ calls = <<0, 1, 2>>

(***************************************************************************)
(* Claims about the site configuration                                     *)
(***************************************************************************)
\* C7 as stated: the configuration makes a broken link fail the build and
\* makes a broken anchor a warning.
C7_AnchorsWarnedByConfig ==
    \A i \in DOMAIN reports :
        /\ reports[i].kind = "link" =>
             reports[i].severity = "throw" /\ reports[i].by = "config"
        /\ reports[i].kind = "anchor" =>
             reports[i].severity = "warn" /\ reports[i].by = "config"

\* C7 (amended): the configuration makes a broken link fail the build and
\* makes a broken Markdown link a warning after which the build continues; a
\* build fails only on a finding handled at "throw".
C7_LinkThrowsMarkdownLinkWarns ==
    /\ \A i \in DOMAIN reports :
         /\ reports[i].kind = "link" =>
              reports[i].severity = "throw" /\ reports[i].by = "config"
         /\ reports[i].kind = "markdownLink" =>
              reports[i].severity = "warn" /\ reports[i].by = "config"
    /\ (\E i \in DOMAIN reports : reports[i].kind = "link") => phase = "failed"
    /\ (\A i \in DOMAIN reports : reports[i].kind = "markdownLink") => phase # "failed"

\* C7 witness: a build that went on after a broken Markdown link was warned
\* about, and failed on a broken link.
C7_Witness ==
    /\ phase = "failed"
    /\ Len(reports) = 2
    /\ reports[1] = [kind |-> "markdownLink", severity |-> "warn", by |-> "config"]
    /\ reports[2] = [kind |-> "link", severity |-> "throw", by |-> "config"]

\* A configuration record with the copyright line left out.
WithoutCopyright(cfg) == [cfg EXCEPT !.themeConfig.footer.copyright = ""]

\* C10 as stated: every field is fixed by the source file alone, so every
\* evaluation of the config module yields the same record.
C10_FixedBySourceAlone ==
    \A i, j \in DOMAIN evaluated : evaluated[i] = evaluated[j]

\* C10 (amended): every field but the footer copyright is fixed by the source
\* file alone; the copyright carries the year the clock showed when the config
\* module was evaluated; and from the evaluation on no field changes for the
\* rest of the build and while the site is served, whatever the clock does.
C10_FixedAtEvaluation ==
    /\ [] /\ \A i, j \in DOMAIN evaluated :
               WithoutCopyright(evaluated[i]) = WithoutCopyright(evaluated[j])
          /\ phase # "start" =>
               /\ config = evaluated[Len(evaluated)]
               /\ config.themeConfig.footer.copyright =
                    "Copyright © " \o ToString(evalYear) \o " ACE WIKI, ACE - Uganda."
    /\ [][(phase # "start" /\ phase' # "start") => config' = config]_vars

\* C10 witness: a second build evaluated the module in a later year than the
\* first, its record differs from the first one's, and the site is still
\* served with it after the year has changed again.
C10_Witness ==
    /\ phase = "serving"
    /\ Len(evaluated) = 2
    /\ evaluated[1] # evaluated[2]
    /\ clock > evalYear
    /\ config = evaluated[2]

(***************************************************************************)
(* Claims about summarize_run.sh                                           *)
(***************************************************************************)
\* The lines of the report between the header and the totals.
ResultLines(lines) == SubSeq(lines, 6, Len(lines) - 5)

\* The logs of a directory that contain ERROR, and those that do not.
ErrorLogs(dir) == { n \in LogFiles(dir) : \E i \in DOMAIN dir[n] : dir[n][i] \in ErrorLines }
CleanLogs(dir) == LogFiles(dir) \ ErrorLogs(dir)

\* The elements of a sequence.
Range(seq) == { seq[i] : i \in DOMAIN seq }

\* C13: a finished run has written exactly one result line per .log file
\* that was in LOG_DIR: "FAILED  <sample>" for a log that contains ERROR,
\* "PASSED  <sample>" for any other, <sample> being the name without
\* directory and .log suffix.
C13_OneLinePerLog ==
    spc = "done" =>
        LET res == ResultLines(report.lines)
        IN  /\ Len(res) = Cardinality(LogFiles(startDir))
            /\ \A n \in ErrorLogs(startDir) : ("FAILED  " \o n.stem) \in Range(res)
            /\ \A n \in CleanLogs(startDir) : ("PASSED  " \o n.stem) \in Range(res)

\* C13 restricted to runs that found at least one log (what the code does).
C13_OneLinePerLogNonEmpty ==
    (spc = "done" /\ LogFiles(startDir) # {}) => C13_OneLinePerLog

\* C14: when LOG_DIR held at least one .log file, the totals of a finished
\* run are: failed = logs with ERROR, passed = logs without, samples = .log
\* files in LOG_DIR when the run started; and these are the numbers written.
C14_TotalsMatch ==
    (spc = "done" /\ LogFiles(startDir) # {}) =>
        LET n == Len(report.lines)
        IN  /\ failed = Cardinality(ErrorLogs(startDir))
            /\ passed = Cardinality(CleanLogs(startDir))
            /\ report.lines[n - 2] = "Total passed: " \o ToString(Cardinality(CleanLogs(startDir)))
            /\ report.lines[n - 1] = "Total failed: " \o ToString(Cardinality(ErrorLogs(startDir)))
            /\ report.lines[n] = "Total samples: " \o ToString(Cardinality(LogFiles(startDir)))

\* C14 witness: a finished run over three logs, one of them failed.
C14_Witness ==
    /\ spc = "done"
    /\ Cardinality(LogFiles(startDir)) = 3
    /\ failed = 1
    /\ passed = 2

\* What holds of the directories when a run ends.
C15_AtEnd ==
    /\ \A n \in ErrorLogs(startDir) :
         /\ n \notin DOMAIN logDir
         /\ n \in DOMAIN failedDir.files
         /\ failedDir.files[n] = startDir[n]
    /\ \A n \in DOMAIN startDir \ ErrorLogs(startDir) :
         /\ n \in DOMAIN logDir
         /\ logDir[n] = startDir[n]
         /\ ~(n \in DOMAIN failedDir.files /\ failedDir.files[n] = startDir[n])
    /\ DOMAIN logDir = DOMAIN startDir \ ErrorLogs(startDir)

C16_IterationsEqualLogs ==
    spc \in {"loop", "totals", "done"} =>
        /\ Len(words) = Cardinality(LogFiles(startDir))
        /\ Range(words) = LogFiles(startDir)
        /\ (spc = "done" /\ LogFiles(startDir) = {}) =>
             /\ ResultLines(report.lines) = <<>>
             /\ passed = 0
             /\ failed = 0

\* C16 restricted to runs that found at least one log (what the code does).
C16_IterationsEqualLogsNonEmpty ==
    (spc \in {"loop", "totals", "done"} /\ LogFiles(startDir) # {}) =>
        C16_IterationsEqualLogs

\* C17: every run empties the report before appending to it: during and
\* after a run the report holds the header of this run, one line per word
\* iterated over so far and, once finished, the five lines of the totals;
\* nothing of an earlier run.
C17_ReportOfLatestRunOnly ==
    /\ spc \in {"for", "loop", "totals"} =>
         /\ SubSeq(report.lines, 1, 5) = Header(runNo)
         /\ Len(report.lines) = 5 + Len(words) - Len(todo)
    /\ spc = "done" =>
         /\ SubSeq(report.lines, 1, 5) = Header(runNo)
         /\ Len(report.lines) = 5 + Len(words) + 5
         /\ \A i \in DOMAIN report.lines : report.lines[i] # Header(runNo - 1)[3]
         /\ shown = report.lines

\* C17 witness: a second run has finished with fewer result lines than the
\* first run wrote.
C17_Witness ==
    /\ spc = "done"
    /\ runNo = 2
    /\ Len(words) = 1
    /\ Len(report.lines) = 11
    /\ Cardinality(DOMAIN failedDir.files) = 2


\* C18 (estimate_pi_mpi.py): once every rank has worked out its share, each
\* rank draws samples // size samples and the shares of all ranks add up to
\* the requested sample count, the one rank 0 announces.
C18_SharesAddUpToRequested ==
    (\A r \in Ranks : rpc[r] # "start") =>
        /\ \A r \in Ranks : samplesPerRank[r] = samples \div size
        /\ SumTo(samplesPerRank, size - 1) = samples
        /\ \E i \in DOMAIN stdout :
               /\ stdout[i].line = "Estimating Pi"
               /\ stdout[i].n = SumTo(samplesPerRank, size - 1)

\* The reduce has returned at rank 0.
RootReduced == rpc[0] \in {"estimate", "report", "done"}

\* C19 (estimate_pi_mpi.py): rank 0 gets the total, and computes and prints
\* the estimate, only after every rank has contributed its local count; the
\* total is the sum of the local counts of all ranks; the estimate is computed
\* from that total, and only a line of rank 0 carries an estimate.
C19_EstimateAfterAllContributed ==
    /\ RootReduced =>
          /\ contrib = Ranks
          /\ \A r \in Ranks : rpc[r] \notin {"start", "compute", "reduce"}
          /\ totalInside = SumTo(localInside, size - 1)
    /\ piEstimate # <<>> =>
          /\ RootReduced
          /\ piEstimate = << 4 * SumTo(localInside, size - 1), samplesPerRank[0] * size >>
    /\ \A i \in DOMAIN stdout : stdout[i].line = "Estimate" =>
          /\ stdout[i].rank = 0
          /\ piEstimate = << stdout[i].n, stdout[i].d >>

C19_Witness ==
    /\ size >= 2
    /\ piEstimate # <<>>
    /\ \E r \in Ranks \ {0} : localInside[r] > 0 /\ rpc[r] = "report"
    /\ totalInside > localInside[0]

\* C20 (mpi_hello.py): the MPI Info summary of rank 0 is printed only after
\* every rank has issued its Hello line and entered the barrier, and no rank
\* is past the barrier while another rank has not yet entered it.
C20_InfoAfterBarrier ==
    /\ \A i \in DOMAIN stdout : stdout[i].line = "MPI Info" =>
          /\ stdout[i].rank = 0
          /\ atBarrier = Ranks
          /\ \A r \in Ranks : \E j \in 1..(i - 1) :
                 stdout[j].line = "Hello from rank" /\ stdout[j].rank = r
    /\ \A r \in Ranks : rpc[r] \in {"info", "done"} =>
          \A q \in Ranks : rpc[q] \notin {"start", "hello"} /\ q \in atBarrier

C20_Witness ==
    /\ size >= 2
    /\ stdout # <<>>
    /\ stdout[Len(stdout)].line = "MPI Info"
    /\ \E r \in Ranks : rpc[r] = "barrier"
    /\ stdout[1].rank # 0

\* C21 (estimate_pi.py): two runs with the same --seed and the same sample
\* count print the same Pi estimate and the same error value.
C21_SameSeedSameEstimate ==
    \A i, j \in DOMAIN printed :
        (printed[i].args.seed # <<>> /\ printed[i].args = printed[j].args) =>
            /\ printed[i].estimate = printed[j].estimate
            /\ printed[i].error = printed[j].error

\* Two runs with --seed 0 and the same sample count have finished, some of
\* their points inside the circle and some outside.
C21_Witness ==
    /\ Len(printed) = 2
    /\ printed[1].args.seed = <<0>>
    /\ printed[1].args = printed[2].args
    /\ printed[1].estimate[1] > 0
    /\ printed[1].estimate[1] < 4 * printed[1].estimate[2]

\* Without --seed two runs of the same sample count can differ.
C21_UnseededRunsDiffer ==
    /\ Len(printed) = 2
    /\ printed[1].args.seed = <<>>
    /\ printed[1].args = printed[2].args
    /\ printed[1].estimate # printed[2].estimate

\* Milestone a has happened (at position i of events for some i).
Happened(a) == \E i \in DOMAIN events : events[i] = a

\* Whenever b has happened, a happened earlier.
Before(a, b) ==
    \A j \in DOMAIN events : events[j] = b => \E i \in 1..(j - 1) : events[i] = a

\* The six steps the onboarding is summarised by, in their fixed order.
FixedOrder == <<"request", "form", "review", "policy signed", "account", "credentials">>

IsFixedStep(e) == \E i \in DOMAIN FixedOrder : FixedOrder[i] = e

\* C22 (onboarding): the steps support request, request form, team review,
\* signed policy, account creation, credentials email happen in that order;
\* the account is created only after the signed policy was received, the
\* policy is sent only after the quiz was passed, and credentials are sent
\* only after the account exists.
C22_FixedOrder ==
    /\ SubSeq(FixedOrder, 1, Len(SelectSeq(events, IsFixedStep))) = SelectSeq(events, IsFixedStep)
    /\ Before("policy signed", "account")
    /\ Before("quiz passed", "policy sent")
    /\ Before("policy sent", "policy signed")
    /\ Before("account", "credentials")

C22_Witness ==
    /\ stage = "credentials"
    /\ SelectSeq(events, IsFixedStep) = FixedOrder
    /\ Happened("materials")

\* C23 (onboarding): the quiz is a retry loop with pass mark 14 of 15.  An
\* attempt with score >= 14 moves the user on towards the policy step; an
\* attempt with score < 14 sends the user back to reviewing the materials,
\* from where the only step is a new attempt, which is always possible; and
\* without a passing attempt nothing beyond the quiz ever happens.
C23_QuizRetryLoop ==
    /\ PassMark = 14 /\ QuizMarks = 15
    /\ [][stage = "quiz" =>
            \/ score' >= PassMark /\ stage' = "passed"
            \/ score' < PassMark /\ stage' = "review again" /\ events' = events]_vars
    /\ [][stage = "passed" => stage' = "policy"]_vars
    /\ [][stage = "review again" => stage' = "quiz" /\ events' = events]_vars
    /\ [](stage = "review again" => ENABLED ReviewAgain)
    /\ [](stage = "quiz" => ENABLED AttemptQuiz)
    /\ [](stage \in {"quiz", "review again"} =>
            ~Happened("quiz passed") /\ ~Happened("policy sent") /\ ~Happened("account"))
    /\ [](Happened("quiz passed") => score >= PassMark)

C23_Witness ==
    /\ attempts >= 2
    /\ score = PassMark
    /\ stage = "policy"

\* The user's account exists on the cluster.
AccountActive == stage \in {"account", "credentials"}

\* C24 (onboarding): no account is active unless its user has completed the
\* Linux/SLURM quiz, whatever the form review found about the user's
\* experience.
C24_NoAccountWithoutQuiz ==
    AccountActive =>
        /\ Happened("quiz provided")
        /\ Happened("quiz passed")
        /\ attempts >= 1
        /\ score >= PassMark

C24_Witness ==
    /\ AccountActive
    /\ experienced = TRUE
    /\ ~Happened("materials")
====
